---- MODULE Spec2Model ----
(***************************************************************************)
(* State-machine model of clock-core: the Stopwatch (src/src/stopwatch.rs) *)
(* and the Timer (src/src/timer.rs).                                       *)
(*                                                                         *)
(* A Moment (DateTime<Local>) is an integer reading of the clock `now`; a  *)
(* Duration is a signed integer.  Every call samples the clock after it    *)
(* has advanced by some step d >= 0, so calls happen at non-decreasing     *)
(* moments.  An index into an empty Vec (last_start on an empty history)   *)
(* is a panic: the call returns nothing, the fields written before the     *)
(* panic keep their new values, and the run ends there.                    *)
(***************************************************************************)
EXTENDS Integers, Sequences, FiniteSets, TLC

\* Bounds of the model.
MaxOps == 5      \* calls made on the tracker in one run
MaxStep == 1     \* largest advance of the clock between two calls
MaxTotal == 2    \* largest duration a Timer is created with

Steps == 0..MaxStep
Totals == 1..MaxTotal

VARIABLES
    tracker,   \* which tracker the run constructed: "Stopwatch" or "Timer"
    now,       \* the clock: what Local::now() returns
    sw,        \* the Stopwatch: [lap_elapsed, paused, data]
    tm,        \* the Timer: [paused, data]
    ret,       \* what the last call returned: [op, kind, val, rec]
    obs,       \* observer of the call sequence (not program state)
    nops       \* number of calls made so far

vars == <<tracker, now, sw, tm, ret, obs, nops>>

RECURSIVE SeqSum(_)
SeqSum(s) == IF s = <<>> THEN 0 ELSE Head(s) + SeqSum(Tail(s))

Last(s) == s[Len(s)]

(***************************************************************************)
(* Return values.  kind is "unit" for (), "some"/"none" for Option,        *)
(* "value" for a Duration, "data" for a returned record, "panic" when the  *)
(* call panicked.                                                          *)
(***************************************************************************)
NoRec == [elapsed |-> 0, total |-> 0, remaining |-> 0, start_moments |-> <<>>,
          pause_moments |-> <<>>, lap_moments |-> <<>>, laps |-> <<>>]

Returned(op, kind, val, rec) == [op |-> op, kind |-> kind, val |-> val, rec |-> rec]

(***************************************************************************)
(* Stopwatch                                                               *)
(***************************************************************************)
StopwatchData_default ==
    [elapsed |-> 0, start_moments |-> <<>>, pause_moments |-> <<>>,
     lap_moments |-> <<>>, laps |-> <<>>]

Stopwatch_default ==
    [lap_elapsed |-> 0, paused |-> TRUE, data |-> StopwatchData_default]

\* Off by one: the lookup indexes len - 2.
last_start_panics_mut(self) == Len(self.data.start_moments) <= 1

\* self.data.start_moments[len - 1]: out of bounds on an empty history.
last_start_panics(self) == Len(self.data.start_moments) = 0

last_start(self) == Last(self.data.start_moments)

last_lap(self) == Last(self.data.lap_moments)

\* The anchor test of read_lap_elapsed.
lap_anchor_is_last_lap(self) ==
    self.lap_elapsed = 0 /\ Len(self.data.lap_moments) > 0

read_lap_elapsed_panics(self) ==
    ~lap_anchor_is_last_lap(self) /\ last_start_panics(self)

\* read_lap_elapsed that always measures from the last start.
read_lap_elapsed_from_start(self, moment) ==
    self.lap_elapsed + (moment - last_start(self))

read_lap_elapsed(self, moment) ==
    self.lap_elapsed
        + IF lap_anchor_is_last_lap(self)
          THEN moment - last_lap(self)
          ELSE moment - last_start(self)

\* read() that adds the time since the last start even when paused.
Stopwatch_read_unpaused(self, moment) ==
    IF last_start_panics(self)
    THEN [panic |-> FALSE, val |-> self.data.elapsed]
    ELSE [panic |-> FALSE,
          val |-> self.data.elapsed + (moment - last_start(self))]

\* read(): [panic, val]
Stopwatch_read(self, moment) ==
    IF self.paused
    THEN [panic |-> FALSE, val |-> self.data.elapsed]
    ELSE IF last_start_panics(self)
         THEN [panic |-> TRUE, val |-> 0]
         ELSE [panic |-> FALSE,
               val |-> self.data.elapsed + (moment - last_start(self))]

\* resume() that returns at once when the stopwatch is already running.
Stopwatch_resume_guarded(self, moment) ==
    IF ~self.paused
    THEN [self |-> self, panic |-> FALSE]
    ELSE [self |-> [self EXCEPT !.data.start_moments = Append(@, moment),
                                !.paused = FALSE],
          panic |-> FALSE]

\* resume(): [self, panic]
Stopwatch_resume(self, moment) ==
    [self |-> [self EXCEPT !.data.start_moments = Append(@, moment),
                           !.paused = FALSE],
     panic |-> FALSE]

\* pause() that measures from the first start instead of the last.
Stopwatch_pause_mut(self, moment) ==
    LET s1 == [self EXCEPT !.data.pause_moments = Append(@, moment)]
    IN  IF last_start_panics(s1)
        THEN [self |-> s1, panic |-> TRUE]
        ELSE LET s2 == [s1 EXCEPT !.data.elapsed =
                                      @ + (moment - s1.data.start_moments[1])]
                 s3 == [s2 EXCEPT !.lap_elapsed = read_lap_elapsed(s2, moment)]
             IN  [self |-> [s3 EXCEPT !.paused = TRUE], panic |-> FALSE]

\* pause() that returns at once when the stopwatch is already paused.
Stopwatch_pause_guarded(self, moment) ==
    IF self.paused
    THEN [self |-> self, panic |-> FALSE]
    ELSE LET s1 == [self EXCEPT !.data.pause_moments = Append(@, moment)]
             s2 == [s1 EXCEPT !.data.elapsed = @ + (moment - last_start(s1))]
             s3 == [s2 EXCEPT !.lap_elapsed = read_lap_elapsed(s2, moment)]
         IN  [self |-> [s3 EXCEPT !.paused = TRUE], panic |-> FALSE]

\* pause(): [self, panic]
Stopwatch_pause(self, moment) ==
    LET s1 == [self EXCEPT !.data.pause_moments = Append(@, moment)]
    IN  IF last_start_panics(s1)
        THEN [self |-> s1, panic |-> TRUE]
        ELSE LET s2 == [s1 EXCEPT !.data.elapsed =
                                      @ + (moment - last_start(s1))]
                 s3 == [s2 EXCEPT !.lap_elapsed = read_lap_elapsed(s2, moment)]
             IN  [self |-> [s3 EXCEPT !.paused = TRUE], panic |-> FALSE]

\* pause_or_resume() with the dispatch inverted.
Stopwatch_pause_or_resume_inverted(self, moment) ==
    IF ~self.paused
    THEN Stopwatch_resume(self, moment)
    ELSE Stopwatch_pause(self, moment)

\* pause_or_resume(): [self, panic]
Stopwatch_pause_or_resume(self, moment) ==
    IF self.paused
    THEN Stopwatch_resume(self, moment)
    ELSE Stopwatch_pause(self, moment)

\* lap() that also banks the lap time into data.elapsed.
Stopwatch_lap_banks(self, moment) ==
    IF self.paused
    THEN [self |-> self, panic |-> FALSE, some |-> FALSE, val |-> 0]
    ELSE IF read_lap_elapsed_panics(self)
         THEN [self |-> self, panic |-> TRUE, some |-> FALSE, val |-> 0]
         ELSE LET lap == read_lap_elapsed(self, moment)
              IN  [self |-> [self EXCEPT !.data.lap_moments = Append(@, moment),
                                         !.data.laps = Append(@, lap),
                                         !.data.elapsed = @ + lap,
                                         !.lap_elapsed = 0],
                   panic |-> FALSE, some |-> TRUE, val |-> lap]

\* lap() that records the lap time but not its moment.
Stopwatch_lap_no_moment(self, moment) ==
    IF self.paused
    THEN [self |-> self, panic |-> FALSE, some |-> FALSE, val |-> 0]
    ELSE IF read_lap_elapsed_panics(self)
         THEN [self |-> self, panic |-> TRUE, some |-> FALSE, val |-> 0]
         ELSE LET lap == read_lap_elapsed(self, moment)
              IN  [self |-> [self EXCEPT !.data.laps = Append(@, lap),
                                         !.lap_elapsed = 0],
                   panic |-> FALSE, some |-> TRUE, val |-> lap]

\* lap(): [self, panic, some, val]
Stopwatch_lap(self, moment) ==
    IF self.paused
    THEN [self |-> self, panic |-> FALSE, some |-> FALSE, val |-> 0]
    ELSE IF read_lap_elapsed_panics(self)
         THEN [self |-> self, panic |-> TRUE, some |-> FALSE, val |-> 0]
         ELSE LET lap == read_lap_elapsed(self, moment)
              IN  [self |-> [self EXCEPT !.data.lap_moments = Append(@, moment),
                                         !.data.laps = Append(@, lap),
                                         !.lap_elapsed = 0],
                   panic |-> FALSE, some |-> TRUE, val |-> lap]

\* stop() that empties the four histories but keeps data.elapsed.
Stopwatch_stop_mut(self, moment) ==
    IF read_lap_elapsed_panics(self)
    THEN [self |-> self, panic |-> TRUE, data |-> StopwatchData_default]
    ELSE
      LET lap == read_lap_elapsed(self, moment)
          s1 == [self EXCEPT !.data.lap_moments = Append(@, moment),
                             !.data.laps = Append(@, lap),
                             !.lap_elapsed = 0,
                             !.data.pause_moments = Append(@, moment)]
      IN  IF last_start_panics(s1)
          THEN [self |-> s1, panic |-> TRUE, data |-> StopwatchData_default]
          ELSE LET s2 == [s1 EXCEPT !.data.elapsed =
                                        @ + (moment - last_start(s1)),
                                    !.paused = TRUE]
               IN  [self |-> [s2 EXCEPT !.data.start_moments = <<>>,
                                        !.data.pause_moments = <<>>,
                                        !.data.lap_moments = <<>>,
                                        !.data.laps = <<>>],
                    panic |-> FALSE, data |-> s2.data]

\* stop() written as Timer::stop_at is: no lookup of the last start.
Stopwatch_stop_unchecked(self, moment) ==
    LET s1 == [self EXCEPT !.data.pause_moments = Append(@, moment),
                           !.lap_elapsed = 0,
                           !.paused = TRUE]
    IN  [self |-> [s1 EXCEPT !.data = StopwatchData_default],
         panic |-> FALSE, data |-> s1.data]

\* stop(): [self, panic, data]
Stopwatch_stop(self, moment) ==
    IF read_lap_elapsed_panics(self)
    THEN [self |-> self, panic |-> TRUE, data |-> StopwatchData_default]
    ELSE
      LET lap == read_lap_elapsed(self, moment)
          s1 == [self EXCEPT !.data.lap_moments = Append(@, moment),
                             !.data.laps = Append(@, lap),
                             !.lap_elapsed = 0,
                             !.data.pause_moments = Append(@, moment)]
      IN  IF last_start_panics(s1)
          THEN [self |-> s1, panic |-> TRUE, data |-> StopwatchData_default]
          ELSE LET s2 == [s1 EXCEPT !.data.elapsed =
                                        @ + (moment - last_start(s1)),
                                    !.paused = TRUE]
               IN  [self |-> [s2 EXCEPT !.data = StopwatchData_default],
                    panic |-> FALSE, data |-> s2.data]

(***************************************************************************)
(* Timer                                                                   *)
(***************************************************************************)
TimerData_new(duration) ==
    [total |-> duration, remaining |-> duration,
     start_moments |-> <<>>, pause_moments |-> <<>>]

Timer_new(duration) == [paused |-> TRUE, data |-> TimerData_new(duration)]

\* read() that adds the open interval instead of subtracting it.
Timer_read_mut(self, moment) ==
    IF self.paused
    THEN [panic |-> FALSE, val |-> self.data.remaining]
    ELSE IF last_start_panics(self)
         THEN [panic |-> TRUE, val |-> 0]
         ELSE [panic |-> FALSE,
               val |-> self.data.remaining + (moment - last_start(self))]

\* read(): [panic, val]
Timer_read(self, moment) ==
    IF self.paused
    THEN [panic |-> FALSE, val |-> self.data.remaining]
    ELSE IF last_start_panics(self)
         THEN [panic |-> TRUE, val |-> 0]
         ELSE [panic |-> FALSE,
               val |-> self.data.remaining - (moment - last_start(self))]

\* pause_at that clamps remaining at zero.
Timer_pause_at_clamped(self, moment) ==
    LET s1 == [self EXCEPT !.data.pause_moments = Append(@, moment)]
        left == s1.data.remaining - (moment - last_start(s1))
    IN  IF last_start_panics(s1)
        THEN [self |-> s1, panic |-> TRUE]
        ELSE [self |-> [s1 EXCEPT !.data.remaining =
                                      IF left < 0 THEN 0 ELSE left,
                                  !.paused = TRUE],
              panic |-> FALSE]

\* pause_at(moment): [self, panic]
Timer_pause_at(self, moment) ==
    LET s1 == [self EXCEPT !.data.pause_moments = Append(@, moment)]
    IN  IF last_start_panics(s1)
        THEN [self |-> s1, panic |-> TRUE]
        ELSE [self |-> [s1 EXCEPT !.data.remaining =
                                      @ - (moment - last_start(s1)),
                                  !.paused = TRUE],
              panic |-> FALSE]

\* resume_at(moment): [self, panic]
Timer_resume_at(self, moment) ==
    [self |-> [self EXCEPT !.data.start_moments = Append(@, moment),
                           !.paused = FALSE],
     panic |-> FALSE]

\* pause_or_resume_at(moment): [self, panic]
Timer_pause_or_resume_at(self, moment) ==
    IF self.paused
    THEN Timer_resume_at(self, moment)
    ELSE Timer_pause_at(self, moment)

\* stop_at that folds the open interval into remaining, as pause_at does.
Timer_stop_at_folds(self, moment) ==
    LET s1 == [self EXCEPT !.data.pause_moments = Append(@, moment)]
        s2 == IF self.paused \/ last_start_panics(s1)
              THEN s1
              ELSE [s1 EXCEPT !.data.remaining = @ - (moment - last_start(s1))]
        duration == s2.data.total
    IN  [self |-> [s2 EXCEPT !.data = TimerData_new(duration)],
         panic |-> FALSE, data |-> s2.data]

\* stop_at(moment): [self, panic, data]; the paused flag is not written.
Timer_stop_at(self, moment) ==
    LET s1 == [self EXCEPT !.data.pause_moments = Append(@, moment)]
        duration == s1.data.total
    IN  [self |-> [s1 EXCEPT !.data = TimerData_new(duration)],
         panic |-> FALSE, data |-> s1.data]

(***************************************************************************)
(* Observer of the call sequence.  It follows the calls, not the fields:   *)
(*   on      an interval is open (the last resume/pause call was a resume) *)
(*   run     time spent with an interval open since new() or the last stop *)
(*   lapRun  the same, since the last lap split                            *)
(*   began   a resume was called since new() or the last stop              *)
(*   ever    a resume was called since new()                               *)
(*   misuse  resume() was called with an interval open, or pause() with    *)
(*           none open                                                     *)
(*   used    the names of the &mut self methods called so far (read takes  *)
(*           &self and is not recorded)                                    *)
(*   pre     on, run, lapRun, began at the moment of the last call, before *)
(*           the call took effect                                          *)
(*   last    the name of the last call                                     *)
(*   afterStop  the call before the last one was a stop                     *)
(***************************************************************************)
Snapshot(o) == [on |-> o.on, run |-> o.run, lapRun |-> o.lapRun, began |-> o.began]

ObsInit ==
    [on |-> FALSE, run |-> 0, lapRun |-> 0, began |-> FALSE, ever |-> FALSE,
     misuse |-> FALSE, used |-> {}, last |-> "new",
     afterStop |-> FALSE,
     pre |-> [on |-> FALSE, run |-> 0, lapRun |-> 0, began |-> FALSE]]

Advance(o, d) ==
    [o EXCEPT !.run = @ + (IF o.on THEN d ELSE 0),
              !.lapRun = @ + (IF o.on THEN d ELSE 0)]

Observe(o, op, d) ==
    LET a == Advance(o, d)
        isResume == op = "resume" \/ (op = "pause_or_resume" /\ ~a.on)
        isPause == op = "pause" \/ (op = "pause_or_resume" /\ a.on)
    IN  [on |-> IF isResume THEN TRUE
                ELSE IF isPause \/ op = "stop" THEN FALSE ELSE a.on,
         run |-> IF op = "stop" THEN 0 ELSE a.run,
         lapRun |-> IF op = "stop" \/ (op = "lap" /\ a.on) THEN 0 ELSE a.lapRun,
         began |-> IF op = "stop" THEN FALSE ELSE a.began \/ isResume,
         ever |-> a.ever \/ isResume,
         misuse |-> a.misuse \/ (op = "resume" /\ a.on) \/ (op = "pause" /\ ~a.on),
         used |-> IF op = "read" THEN a.used ELSE a.used \cup {op},
         last |-> op,
         afterStop |-> a.last = "stop",
         pre |-> Snapshot(a)]

(***************************************************************************)
(* The state machine                                                       *)
(***************************************************************************)
\* The run constructs one tracker, Stopwatch::new() or Timer::new(duration);
\* the variable of the other one is never used and keeps a fixed value.
Init ==
    /\ \/ tracker = "Stopwatch" /\ tm = Timer_new(0)
       \/ tracker = "Timer" /\ \E duration \in Totals : tm = Timer_new(duration)
    /\ now = 0
    /\ sw = Stopwatch_default
    /\ ret = Returned("new", "unit", 0, NoRec)
    /\ obs = ObsInit
    /\ nops = 0

\* A call made after the clock advanced by d; no call follows a panic.
Call(op, d) ==
    /\ ret.kind # "panic"
    /\ nops < MaxOps
    /\ now' = now + d
    /\ nops' = nops + 1
    /\ obs' = Observe(obs, op, d)
    /\ UNCHANGED tracker

UnitOrPanic(op, r) ==
    Returned(op, IF r.panic THEN "panic" ELSE "unit", 0, NoRec)

SwRead ==
    \E d \in Steps :
        /\ tracker = "Stopwatch"
        /\ Call("read", d)
        /\ LET r == Stopwatch_read(sw, now + d)
           IN  ret' = Returned("read", IF r.panic THEN "panic" ELSE "value",
                               r.val, NoRec)
        /\ UNCHANGED <<sw, tm>>

SwResume ==
    \E d \in Steps :
        /\ tracker = "Stopwatch"
        /\ Call("resume", d)
        /\ LET r == Stopwatch_resume(sw, now + d)
           IN  sw' = r.self /\ ret' = UnitOrPanic("resume", r)
        /\ UNCHANGED tm

SwPause ==
    \E d \in Steps :
        /\ tracker = "Stopwatch"
        /\ Call("pause", d)
        /\ LET r == Stopwatch_pause(sw, now + d)
           IN  sw' = r.self /\ ret' = UnitOrPanic("pause", r)
        /\ UNCHANGED tm

SwPauseOrResume ==
    \E d \in Steps :
        /\ tracker = "Stopwatch"
        /\ Call("pause_or_resume", d)
        /\ LET r == Stopwatch_pause_or_resume(sw, now + d)
           IN  sw' = r.self /\ ret' = UnitOrPanic("pause_or_resume", r)
        /\ UNCHANGED tm

SwLap ==
    \E d \in Steps :
        /\ tracker = "Stopwatch"
        /\ Call("lap", d)
        /\ LET r == Stopwatch_lap(sw, now + d)
           IN  /\ sw' = r.self
               /\ ret' = Returned("lap",
                                  IF r.panic THEN "panic"
                                  ELSE IF r.some THEN "some" ELSE "none",
                                  r.val, NoRec)
        /\ UNCHANGED tm

SwStop ==
    \E d \in Steps :
        /\ tracker = "Stopwatch"
        /\ Call("stop", d)
        /\ LET r == Stopwatch_stop(sw, now + d)
           IN  /\ sw' = r.self
               /\ ret' = Returned("stop", IF r.panic THEN "panic" ELSE "data",
                                  0, r.data)
        /\ UNCHANGED tm

TmRead ==
    \E d \in Steps :
        /\ tracker = "Timer"
        /\ Call("read", d)
        /\ LET r == Timer_read(tm, now + d)
           IN  ret' = Returned("read", IF r.panic THEN "panic" ELSE "value",
                               r.val, NoRec)
        /\ UNCHANGED <<sw, tm>>

TmResume ==
    \E d \in Steps :
        /\ tracker = "Timer"
        /\ Call("resume", d)
        /\ LET r == Timer_resume_at(tm, now + d)
           IN  tm' = r.self /\ ret' = UnitOrPanic("resume", r)
        /\ UNCHANGED sw

TmPause ==
    \E d \in Steps :
        /\ tracker = "Timer"
        /\ Call("pause", d)
        /\ LET r == Timer_pause_at(tm, now + d)
           IN  tm' = r.self /\ ret' = UnitOrPanic("pause", r)
        /\ UNCHANGED sw

TmPauseOrResume ==
    \E d \in Steps :
        /\ tracker = "Timer"
        /\ Call("pause_or_resume", d)
        /\ LET r == Timer_pause_or_resume_at(tm, now + d)
           IN  tm' = r.self /\ ret' = UnitOrPanic("pause_or_resume", r)
        /\ UNCHANGED sw

TmStop ==
    \E d \in Steps :
        /\ tracker = "Timer"
        /\ Call("stop", d)
        /\ LET r == Timer_stop_at(tm, now + d)
           IN  /\ tm' = r.self
               /\ ret' = Returned("stop", IF r.panic THEN "panic" ELSE "data",
                                  0, r.data)
        /\ UNCHANGED sw

Next ==
    \/ SwRead \/ SwResume \/ SwPause \/ SwPauseOrResume \/ SwLap \/ SwStop
    \/ TmRead \/ TmResume \/ TmPause \/ TmPauseOrResume \/ TmStop

Spec == Init /\ [][Next]_vars

(***************************************************************************)
(* Properties                                                              *)
(***************************************************************************)
SwStopped == tracker = "Stopwatch" /\ ret.op = "stop" /\ ret.kind = "data"

TmStopped == tracker = "Timer" /\ ret.op = "stop" /\ ret.kind = "data"

\* C1: after pause_or_resume() and lap() calls with at least one resume,
\* the laps of the StopwatchData returned by stop() sum to its elapsed.
C1_LapSumEqualsElapsed ==
    (/\ SwStopped
     /\ obs.pre.began
     /\ obs.used \subseteq {"pause_or_resume", "lap", "stop"})
        => SeqSum(ret.rec.laps) = ret.rec.elapsed

\* C2: a lap() made while running returns the time spent running since the
\* previous lap (or the session's first start), paused time excluded.
C2_LapIsRunningTimeSinceLastLap ==
    (/\ tracker = "Stopwatch"
     /\ ret.op = "lap"
     /\ obs.pre.on
     /\ obs.used \subseteq {"pause_or_resume", "lap"})
        => ret.kind = "some" /\ ret.val = obs.pre.lapRun

\* C3: on a Stopwatch driven by strictly alternating resume()/pause(), a
\* read() made while paused returns the sum of the closed intervals.
C3_ReadAfterPauseIsSumOfIntervals ==
    (/\ tracker = "Stopwatch"
     /\ ret.op = "read"
     /\ ~obs.on
     /\ ~obs.misuse
     /\ obs.used \subseteq {"resume", "pause"})
        => ret.kind = "value" /\ ret.val = obs.run

C3_Witness ==
    /\ tracker = "Stopwatch"
    /\ ret.op = "read"
    /\ ~obs.on
    /\ ~obs.misuse
    /\ obs.used \subseteq {"resume", "pause"}
    /\ Len(sw.data.pause_moments) = 2
    /\ sw.data.start_moments[2] > sw.data.pause_moments[1]
    /\ sw.data.pause_moments[1] > sw.data.start_moments[1]
    /\ ret.val = obs.run

C5_StopRecordPausesMatchStarts ==
    (/\ ret.op = "stop"
     /\ ret.kind = "data"
     /\ obs.pre.began
     /\ obs.used \subseteq {"pause_or_resume", "lap", "stop"})
        => Len(ret.rec.pause_moments) = Len(ret.rec.start_moments)

\* C6: after Timer::stop_at the Timer is as constructed: paused, remaining
\* equal to total, both histories empty, and read() returns total.
C6_TimerStopResets ==
    TmStopped =>
        /\ tm.paused
        /\ tm.data.remaining = tm.data.total
        /\ tm.data.start_moments = <<>>
        /\ tm.data.pause_moments = <<>>
        /\ Timer_read(tm, now) = [panic |-> FALSE, val |-> tm.data.total]

\* C7: after a successful Stopwatch::stop() the Stopwatch equals a new one
\* and read() returns 0; a resume() that follows holds exactly its own
\* moment in start_moments and nothing of the previous session.
C7_StopwatchStopResets ==
    /\ SwStopped =>
        /\ sw = Stopwatch_default
        /\ Stopwatch_read(sw, now) = [panic |-> FALSE, val |-> 0]
    /\ (/\ tracker = "Stopwatch"
        /\ ret.op \in {"resume", "pause_or_resume"}
        /\ obs.afterStop) =>
        /\ sw = [Stopwatch_default EXCEPT !.paused = FALSE,
                                          !.data.start_moments = <<now>>]
        /\ Stopwatch_read(sw, now) = [panic |-> FALSE, val |-> 0]

C7_Witness ==
    /\ SwStopped
    /\ ret.rec.elapsed > 0
    /\ Len(ret.rec.laps) >= 2
    /\ Len(ret.rec.pause_moments) >= 2
    /\ sw = Stopwatch_default

\* C8: stop_at on a Timer that was never resumed fails and returns no
\* record.
C8_TimerStopNeverStartedFails ==
    (tracker = "Timer" /\ ret.op = "stop" /\ ~obs.ever) => ret.kind = "panic"

\* C9: stop() on a Stopwatch that was never resumed fails on the lookup of
\* the last start and returns no StopwatchData.
C9_StopwatchStopNeverStartedFails ==
    (tracker = "Stopwatch" /\ ret.op = "stop" /\ ~obs.ever) =>
        ret.kind = "panic" /\ last_start_panics(sw) /\ sw = Stopwatch_default

C9_Witness ==
    /\ tracker = "Stopwatch"
    /\ ret.op = "stop"
    /\ ~obs.ever
    /\ ret.kind = "panic"
    /\ last_start_panics(sw)

\* C10 as stated: stop() succeeds once any resume() was called since new().
C10_StopSucceedsOnceEverResumed ==
    (tracker = "Stopwatch" /\ ret.op = "stop" /\ obs.ever) => ret.kind = "data"

\* C10 as amended: stop() succeeds whenever a resume() was called since
\* new() or since the last stop(), whichever is later.
C10_StopSucceedsOnceResumedInSession ==
    (tracker = "Stopwatch" /\ ret.op = "stop" /\ obs.pre.began) =>
        ret.kind = "data"

C10_Witness ==
    /\ SwStopped
    /\ obs.pre.began
    /\ ~obs.pre.on
    /\ Len(ret.rec.start_moments) >= 2

\* C11: pause() called on a tracker that was never resumed (Stopwatch::pause,
\* Timer::pause_at) fails on the lookup of the last start instead of
\* completing.
C11_PauseNeverStartedFails ==
    (ret.op = "pause" /\ ~obs.ever) =>
        /\ ret.kind = "panic"
        /\ tracker = "Stopwatch" => last_start_panics(sw)
        /\ tracker = "Timer" => last_start_panics(tm)

C11_Witness ==
    /\ tracker = "Stopwatch"
    /\ ret.op = "pause"
    /\ ~obs.ever
    /\ ret.kind = "panic"
    /\ sw.data.start_moments = <<>>
    /\ sw.data.pause_moments = <<now>>

\* C12: read() changes no field of the tracker, and while the tracker is
\* paused a read() that follows a read() returns the same value however far
\* the clock advanced in between.
C12_ReadIsPureAndStableWhilePaused ==
    [][ret'.op = "read" =>
          /\ sw' = sw
          /\ tm' = tm
          /\ (tracker = "Stopwatch" /\ sw.paused) =>
                /\ ret'.kind = "value"
                /\ ret'.val = sw.data.elapsed
                /\ ret.op = "read" => ret'.val = ret.val
          /\ (tracker = "Timer" /\ tm.paused) =>
                /\ ret'.kind = "value"
                /\ ret'.val = tm.data.remaining
                /\ ret.op = "read" => ret'.val = ret.val]_vars

C12_Witness ==
    /\ tracker = "Stopwatch"
    /\ ret.op = "read"
    /\ sw.paused
    /\ sw.data.elapsed > 0
    /\ Len(sw.data.pause_moments) > 0
    /\ now > Last(sw.data.pause_moments)
    /\ ret.val = sw.data.elapsed

\* C13: lap() while paused returns None and changes nothing; while running
\* it returns Some and leaves elapsed, start_moments, pause_moments and the
\* paused flag as they were, so read() at a moment is the same with or
\* without the lap.
C13_LapFrame ==
    [][(tracker = "Stopwatch" /\ ret'.op = "lap") =>
          IF sw.paused
          THEN ret'.kind = "none" /\ sw' = sw
          ELSE /\ ret'.kind = "some"
               /\ sw'.data.elapsed = sw.data.elapsed
               /\ sw'.data.start_moments = sw.data.start_moments
               /\ sw'.data.pause_moments = sw.data.pause_moments
               /\ sw'.paused = sw.paused
               /\ Stopwatch_read(sw', now') = Stopwatch_read(sw, now')]_vars

C13_Witness ==
    /\ tracker = "Stopwatch"
    /\ ret.op = "lap"
    /\ ret.kind = "some"
    /\ ret.val > 0
    /\ sw.data.elapsed > 0
    /\ ~sw.paused
    /\ Len(sw.data.pause_moments) = 1

C15_TimerStopDoesNotFold ==
    [][(tracker = "Timer" /\ ret'.op = "stop") =>
          /\ ret'.kind = "data"
          /\ ret'.rec.total = tm.data.total
          /\ ret'.rec.start_moments = tm.data.start_moments
          /\ ret'.rec.pause_moments = Append(tm.data.pause_moments, now')
          /\ ret'.rec.remaining = tm.data.remaining
          /\ tm'.data.total = tm.data.total
          /\ tm'.data.remaining = tm.data.total
          /\ tm'.data.start_moments = <<>>
          /\ tm'.data.pause_moments = <<>>
          /\ (/\ obs.on
              /\ ~obs.misuse
              /\ obs.used \subseteq {"resume", "pause", "pause_or_resume"}) =>
                ret'.rec.remaining =
                    tm.data.total
                        - (obs'.pre.run - (now' - last_start(tm)))]_vars

C15_Witness ==
    /\ TmStopped
    /\ obs.pre.on
    /\ ~obs.misuse
    /\ Len(ret.rec.start_moments) = 2
    /\ ret.rec.pause_moments = <<ret.rec.start_moments[1] + 1, now>>
    /\ now > ret.rec.start_moments[2]
    /\ ret.rec.remaining = ret.rec.total - 1
    /\ tm.data = TimerData_new(ret.rec.total)

\* C16: laps and lap_moments of a Stopwatch always have the same length,
\* in the live data and in every returned StopwatchData; a successful lap()
\* appends exactly one entry to both, stop() appends one final entry to
\* both, so a returned record has at least one lap and its last lap moment
\* is its last pause moment; no other call touches them.
C16_LapsParallelToLapMoments ==
    [][tracker = "Stopwatch" =>
          /\ Len(sw'.data.laps) = Len(sw'.data.lap_moments)
          /\ (ret'.op = "lap" /\ ret'.kind = "some") =>
                /\ sw'.data.laps = Append(sw.data.laps, ret'.val)
                /\ sw'.data.lap_moments = Append(sw.data.lap_moments, now')
          /\ (ret'.op = "stop" /\ ret'.kind = "data") =>
                /\ Len(ret'.rec.laps) = Len(sw.data.laps) + 1
                /\ SubSeq(ret'.rec.laps, 1, Len(sw.data.laps)) = sw.data.laps
                /\ ret'.rec.lap_moments = Append(sw.data.lap_moments, now')
                /\ Len(ret'.rec.laps) = Len(ret'.rec.lap_moments)
                /\ Len(ret'.rec.laps) >= 1
                /\ Last(ret'.rec.lap_moments) = Last(ret'.rec.pause_moments)
          /\ (ret'.op \notin {"lap", "stop"} \/ ret'.kind = "none") =>
                /\ sw'.data.laps = sw.data.laps
                /\ sw'.data.lap_moments = sw.data.lap_moments]_vars

C16_Witness ==
    /\ SwStopped
    /\ Len(ret.rec.laps) = 3
    /\ Len(ret.rec.lap_moments) = 3
    /\ ret.rec.lap_moments[3] = now
    /\ ret.rec.lap_moments[1] < ret.rec.lap_moments[2]
    /\ Last(ret.rec.pause_moments) = now

\* C17: a lap() at moment b that directly follows a successful lap() at
\* moment a, with no pause or resume in between, returns exactly b - a,
\* which is zero when b = a.
C17_ConsecutiveLaps ==
    [][(/\ tracker = "Stopwatch"
        /\ ret.op = "lap"
        /\ ret.kind = "some"
        /\ ret'.op = "lap") =>
          /\ ret'.kind = "some"
          /\ Last(sw.data.lap_moments) = now
          /\ ret'.val = now' - now]_vars

C17_Witness ==
    /\ tracker = "Stopwatch"
    /\ ret.op = "lap"
    /\ ret.kind = "some"
    /\ sw.data.pause_moments = <<>>
    /\ Len(sw.data.start_moments) = 1
    /\ Len(sw.data.lap_moments) = 3
    /\ sw.data.start_moments[1] < sw.data.lap_moments[1]
    /\ sw.data.lap_moments[1] < sw.data.lap_moments[2]
    /\ sw.data.lap_moments[2] = sw.data.lap_moments[3]
    /\ sw.data.laps[2] = sw.data.lap_moments[2] - sw.data.lap_moments[1]
    /\ sw.data.laps[3] = 0

C19_StopAgreesWithRead ==
    [][(/\ tracker = "Stopwatch"
        /\ ret'.op = "stop"
        /\ ret'.kind = "data"
        /\ obs'.used \subseteq {"pause_or_resume", "lap", "stop"}) =>
          ret'.rec.elapsed = Stopwatch_read(sw, now').val]_vars

\* C20: on a Stopwatch driven only by pause_or_resume(), lap(), read() and
\* stop(), with stop() called only after a resume in the current session,
\* paused implies as many start_moments as pause_moments and running
\* implies exactly one more start moment; hence no call looks up the last
\* start of an empty history.
C20_HistoryLengthsFollowPaused ==
    (/\ tracker = "Stopwatch"
     /\ obs.used \subseteq {"pause_or_resume", "lap", "stop"}
     /\ ~(ret.op = "stop" /\ ~obs.pre.began)) =>
        /\ sw.paused =>
              Len(sw.data.start_moments) = Len(sw.data.pause_moments)
        /\ ~sw.paused =>
              Len(sw.data.start_moments) = Len(sw.data.pause_moments) + 1
        /\ ~sw.paused => ~last_start_panics(sw)
        /\ ret.kind # "panic"

C20_Witness ==
    /\ tracker = "Stopwatch"
    /\ obs.used = {"pause_or_resume", "lap", "stop"}
    /\ ~sw.paused
    /\ ret.op = "lap"
    /\ ret.kind = "some"
    /\ Len(sw.data.start_moments) = 1
    /\ Len(sw.data.pause_moments) = 0

====
